---- MODULE Spec2Model ----
(***************************************************************************)
(* ConnectionPool of src/streamlit/utils/databricks_client.py as a state   *)
(* machine: caller threads run get_connection, release_connection and      *)
(* close_all step by step, one step per access to the shared state (the    *)
(* idle Queue, active_connections, the lock) or to a connection (probe,    *)
(* close).  On top of the pool, DatabricksClient.execute_query,            *)
(* test_connection and close are modelled step by step for each thread,    *)
(* and the methods of DataOperations                                       *)
(* (src/streamlit/operations/data_operations.py) as a sequential caller of *)
(* execute_query.                                                          *)
(***************************************************************************)
EXTENDS Integers, Sequences, FiniteSets, TLC

\* ---- bounds of the model ----
NumThreads == 3     \* caller threads
MaxPool == 2        \* largest max_connections a pool is constructed with
MaxOpened == 2      \* connect() succeeds at most this often; after that the endpoint refuses
TimeoutTicks == 1   \* connection_timeout, in ticks of the model's clock
MaxDoubleRelease == 1  \* how often callers release a connection they no longer hold
MaxCount == 2       \* largest COUNT(*) the existence check of update_record returns

Threads == 1..NumThreads
Sessions == 1..MaxOpened
ElapsedCap == TimeoutTicks + 1

VARIABLES
  max_connections,     \* ConnectionPool.max_connections (constructor argument)
  pool,                \* ConnectionPool.pool: the Queue of idle connections, head first
  active_connections,  \* ConnectionPool.active_connections
  lock,                \* ConnectionPool.lock: 0 = free, else the thread inside "with self.lock"
  status,              \* each connection object: "unopened", "live", "stale" (dropped by the endpoint), "closed"
  pc,                  \* each thread's position in the pool's code ("idle" = in none of its methods)
  checked_out,         \* per connection: how many callers got it from get_connection and have not yet passed it to release_connection
  conn,                \* the `connection` of the thread's release_connection or close_all in progress (0 = none)
  event,               \* how the last step ended a call of the pool ("none" if it ended none)
  remaining,           \* ticks left of the timeout of the lock holder's connect or blocking pool.get
  elapsed,             \* measurement: ticks since the thread called get_connection (saturates at ElapsedCap)
  savedActive,         \* history: active_connections when the lock holder entered "with self.lock"
  decs,                \* history: how often active_connections was decremented for each connection
  doubles,             \* how often a caller has released a connection it no longer held
  busyAtCall,          \* history: whether some connection was checked out when the thread called get_connection
  held,                \* history: whether the thread's release_connection in progress was passed a connection its caller held
  q_pc,                \* each thread's position in execute_query, test_connection or close ("out" = in none)
  connection,          \* the local `connection` of the thread's execute_query or test_connection (0 = None)
  releases,            \* history: how often the thread's client call in progress has called release_connection
  q_result,            \* how the thread's last client call ended: "none", "rows" or "raised", "True" or "False"
  method,              \* the DataOperations method in progress ("none" if none)
  record,              \* its argument: [kind |-> "dict", "object", "str", "filter" or "none", country_code |-> ...]
  op_pc,               \* the position inside that method
  calls,               \* the execute_query calls the method has made so far, each with its outcome
  ret                  \* what the last method call gave its caller, as a string: "none", "True", "False", "raised", "None", a count or the rows

\* the state of the pool
poolVars == <<max_connections, pool, active_connections, lock, status, pc, checked_out,
              conn, event, remaining, elapsed, savedActive, decs, doubles, busyAtCall, held>>

\* the locals of the threads inside the client's methods
clientVars == <<q_pc, connection, releases, q_result>>

\* the locals of the DataOperations method in progress
opsVars == <<method, record, op_pc, calls, ret>>

vars == <<poolVars, clientVars, opsVars>>

\* a step of the pool made by a caller that is not inside execute_query or a
\* DataOperations method: their locals stay as they are
Apart == UNCHANGED <<clientVars, opsVars>>

GetPcs == {"g_lock", "g_connect", "g_wait"}

\* number of connections connect() has created so far; the next one is opened + 1
opened == Cardinality({s \in Sessions : status[s] # "unopened"})

\* the threads inside get_connection
InGet == {t \in Threads : pc[t] \in GetPcs}

\* the thread inside "with self.lock" of get_connection, if any: it is in connect(...,
\* connect_timeout=...) or in pool.get(block=True, timeout=...)
Waiting == {t \in Threads : pc[t] \in {"g_connect", "g_wait"}}

\* ConnectionPool.__init__
Init ==
  /\ max_connections \in 1..MaxPool
  /\ pool = <<>>
  /\ active_connections = 0
  /\ lock = 0
  /\ status = [s \in Sessions |-> "unopened"]
  /\ pc = [t \in Threads |-> "idle"]
  /\ checked_out = [s \in Sessions |-> 0]
  /\ conn = [t \in Threads |-> 0]
  /\ event = "none"
  /\ remaining = 0
  /\ elapsed = [t \in Threads |-> 0]
  /\ savedActive = 0
  /\ decs = [s \in Sessions |-> 0]
  /\ doubles = 0
  /\ busyAtCall = [t \in Threads |-> FALSE]
  /\ held = [t \in Threads |-> FALSE]
  /\ q_pc = [t \in Threads |-> "out"]
  /\ connection = [t \in Threads |-> 0]
  /\ releases = [t \in Threads |-> 0]
  /\ q_result = [t \in Threads |-> "none"]
  /\ method = "none"
  /\ record = [kind |-> "none", country_code |-> "none"]
  /\ op_pc = "idle"
  /\ calls = <<>>
  /\ ret = "none"

\* ---------------------------------------------------------------- get_connection

\* get_connection counting a reused idle connection as a new one
GetTryCounting(t) ==
  /\ pc[t] = "idle"
  /\ IF pool # <<>>
       THEN /\ checked_out' = [checked_out EXCEPT ![Head(pool)] = @ + 1]
            /\ pool' = Tail(pool)
            /\ event' = "reused"
            /\ active_connections' = active_connections + 1
            /\ UNCHANGED <<pc, busyAtCall, held>>
       ELSE /\ pc' = [pc EXCEPT ![t] = "g_lock"]
            /\ event' = "none"
            /\ busyAtCall' = [busyAtCall EXCEPT ![t] = \E s \in Sessions : checked_out[s] > 0]
            /\ UNCHANGED <<checked_out, pool, active_connections>>
  /\ UNCHANGED <<max_connections, lock, status, conn,
                 remaining, elapsed, savedActive, decs, doubles, held>>

\* a thread calls get_connection: connection = self.pool.get(block=False);
\* return the idle connection, or on Empty go on to the lock
GetTry(t) ==
  /\ pc[t] = "idle"
  /\ IF pool # <<>>
       THEN /\ checked_out' = [checked_out EXCEPT ![Head(pool)] = @ + 1]
            /\ pool' = Tail(pool)
            /\ event' = "reused"
            /\ UNCHANGED <<pc, busyAtCall, held>>
       ELSE /\ pc' = [pc EXCEPT ![t] = "g_lock"]
            /\ event' = "none"
            /\ busyAtCall' = [busyAtCall EXCEPT ![t] = \E s \in Sessions : checked_out[s] > 0]
            /\ UNCHANGED <<checked_out, pool>>
  /\ UNCHANGED <<max_connections, active_connections, lock, status, conn,
                 remaining, elapsed, savedActive, decs, doubles, held>>

\* the capacity test off by one: a connection is opened at the limit too
UnderLimitInclusive == active_connections <= max_connections

\* if self.active_connections < self.max_connections
UnderLimit == active_connections < max_connections

\* with self.lock: under the limit count the new connection, else wait on the queue
GetLock(t) ==
  /\ pc[t] = "g_lock"
  /\ lock = 0
  /\ lock' = t
  /\ savedActive' = active_connections
  /\ IF UnderLimit
       THEN /\ active_connections' = active_connections + 1
            /\ pc' = [pc EXCEPT ![t] = "g_connect"]
       ELSE /\ pc' = [pc EXCEPT ![t] = "g_wait"]
            /\ UNCHANGED active_connections
  /\ remaining' = TimeoutTicks
  /\ event' = "none"
  /\ UNCHANGED <<max_connections, pool, status, checked_out, conn, elapsed,
                 decs, doubles, busyAtCall, held>>

\* the except branch without its rollback
ConnectFailedNoRollback == active_connections

\* the except branch giving back two slots
ConnectFailedTwice == active_connections - 2

\* except Exception: self.active_connections -= 1
ConnectFailedCount == active_connections - 1

\* the outcomes connect() can have: it returns a connection or raises
ConnectOutcomes == IF opened < MaxOpened THEN BOOLEAN ELSE {FALSE}

\* connection = connect(...): return it, or roll the counter back and re-raise
GetConnect(t) ==
  /\ pc[t] = "g_connect"
  /\ \E ok \in ConnectOutcomes :
       IF ok
         THEN /\ status' = [status EXCEPT ![opened + 1] = "live"]
              /\ checked_out' = [checked_out EXCEPT ![opened + 1] = 1]
              /\ event' = "opened"
              /\ UNCHANGED active_connections
         ELSE /\ active_connections' = ConnectFailedCount
              /\ event' = "connfail"
              /\ UNCHANGED <<status, checked_out>>
  /\ lock' = 0
  /\ savedActive' = 0
  /\ pc' = [pc EXCEPT ![t] = "idle"]
  /\ elapsed' = [elapsed EXCEPT ![t] = 0]
  /\ busyAtCall' = [busyAtCall EXCEPT ![t] = FALSE]
  /\ remaining' = 0
  /\ UNCHANGED <<max_connections, pool, conn, decs, doubles, held>>

\* a blocking get that counts the connection it takes as a new one
GetWaitTakeCounting(t) ==
  /\ pc[t] = "g_wait"
  /\ pool # <<>>
  /\ checked_out' = [checked_out EXCEPT ![Head(pool)] = @ + 1]
  /\ pool' = Tail(pool)
  /\ event' = "waited"
  /\ active_connections' = active_connections + 1
  /\ lock' = 0
  /\ savedActive' = 0
  /\ remaining' = 0
  /\ pc' = [pc EXCEPT ![t] = "idle"]
  /\ elapsed' = [elapsed EXCEPT ![t] = 0]
  /\ busyAtCall' = [busyAtCall EXCEPT ![t] = FALSE]
  /\ UNCHANGED <<max_connections, status, conn, decs, doubles, held>>

\* return self.pool.get(block=True, timeout=self.connection_timeout): an item is there
GetWaitTake(t) ==
  /\ pc[t] = "g_wait"
  /\ pool # <<>>
  /\ checked_out' = [checked_out EXCEPT ![Head(pool)] = @ + 1]
  /\ pool' = Tail(pool)
  /\ event' = "waited"
  /\ lock' = 0
  /\ savedActive' = 0
  /\ remaining' = 0
  /\ pc' = [pc EXCEPT ![t] = "idle"]
  /\ elapsed' = [elapsed EXCEPT ![t] = 0]
  /\ busyAtCall' = [busyAtCall EXCEPT ![t] = FALSE]
  /\ UNCHANGED <<max_connections, active_connections, status, conn, decs, doubles, held>>

\* a blocking get that gives up at once
TimedOutAtOnce == TRUE

\* the blocking get gives up once its timeout has run down
TimedOut == remaining = 0

\* a timeout that gives back a slot it never took
GetTimeoutRollback(t) ==
  /\ pc[t] = "g_wait"
  /\ pool = <<>>
  /\ TimedOut
  /\ event' = "timeout"
  /\ active_connections' = active_connections - 1
  /\ lock' = 0
  /\ savedActive' = 0
  /\ remaining' = 0
  /\ pc' = [pc EXCEPT ![t] = "idle"]
  /\ elapsed' = [elapsed EXCEPT ![t] = 0]
  /\ busyAtCall' = [busyAtCall EXCEPT ![t] = FALSE]
  /\ UNCHANGED <<max_connections, pool, status, checked_out, conn, decs, doubles, held>>

\* except Empty: raise TimeoutException(...), the queue being still empty
GetTimeout(t) ==
  /\ pc[t] = "g_wait"
  /\ pool = <<>>
  /\ TimedOut
  /\ event' = "timeout"
  /\ lock' = 0
  /\ savedActive' = 0
  /\ remaining' = 0
  /\ pc' = [pc EXCEPT ![t] = "idle"]
  /\ elapsed' = [elapsed EXCEPT ![t] = 0]
  /\ busyAtCall' = [busyAtCall EXCEPT ![t] = FALSE]
  /\ UNCHANGED <<max_connections, pool, active_connections, status, checked_out, conn, decs, doubles, held>>

\* ---------------------------------------------------------------- release_connection

\* cursor = connection.cursor(); cursor.execute("SELECT 1"); cursor.close() does not raise
ProbeOk(s) == status[s] = "live"

\* release_connection(s) is called and makes its probe, a round trip to the endpoint
\* with no lock held: on success it goes on to the put, on an exception to the close
Release(t, s) ==
  /\ conn' = [conn EXCEPT ![t] = s]
  /\ pc' = [pc EXCEPT ![t] = IF ProbeOk(s) THEN "r_put" ELSE "r_close"]
  /\ event' = "none"
  /\ UNCHANGED <<max_connections, pool, active_connections, lock, status, remaining,
                 elapsed, savedActive, decs, busyAtCall>>

\* a caller passes a connection it holds to release_connection
ReleaseProbe(t) ==
  /\ pc[t] = "idle"
  /\ \E s \in Sessions :
       /\ checked_out[s] > 0
       /\ Release(t, s)
       /\ checked_out' = [checked_out EXCEPT ![s] = @ - 1]
  /\ held' = [held EXCEPT ![t] = TRUE]
  /\ UNCHANGED doubles

\* the connections no caller holds any more: every one that got them from
\* get_connection has passed them to release_connection
ReleasedSessions ==
  {s \in Sessions : status[s] # "unopened" /\ checked_out[s] = 0}

\* a caller passes such a connection to release_connection once more (nothing in the
\* code knows whether a connection is checked out)
DoubleRelease(t) ==
  /\ pc[t] = "idle"
  /\ doubles < MaxDoubleRelease
  /\ \E s \in ReleasedSessions : Release(t, s)
  /\ doubles' = doubles + 1
  /\ held' = [held EXCEPT ![t] = FALSE]
  /\ UNCHANGED checked_out

\* self.pool.put(connection, block=False): the connection is queued and
\* release_connection returns, or the queue is full and queue.Full leads to the
\* except branch like a failed probe
ReleasePut(t) ==
  /\ pc[t] = "r_put"
  /\ IF Len(pool) < max_connections
       THEN /\ pool' = Append(pool, conn[t])
            /\ conn' = [conn EXCEPT ![t] = 0]
            /\ pc' = [pc EXCEPT ![t] = "idle"]
            /\ held' = [held EXCEPT ![t] = FALSE]
            /\ event' = "queued"
       ELSE /\ pc' = [pc EXCEPT ![t] = "r_close"]
            /\ event' = "none"
            /\ UNCHANGED <<pool, conn, held>>
  /\ UNCHANGED <<max_connections, active_connections, lock, status, checked_out, remaining,
                 elapsed, savedActive, decs, doubles, busyAtCall>>

\* except Exception: try: connection.close() except: pass (no lock held)
ReleaseClose(t) ==
  /\ pc[t] = "r_close"
  /\ status' = [status EXCEPT ![conn[t]] = "closed"]
  /\ pc' = [pc EXCEPT ![t] = "r_lock"]
  /\ event' = "none"
  /\ UNCHANGED <<max_connections, pool, active_connections, lock, checked_out, conn,
                 remaining, elapsed, savedActive, decs, doubles, busyAtCall, held>>

\* a release that forgets the counter after closing a dead connection
ReleaseNoDec(t) ==
  /\ pc[t] = "r_lock"
  /\ lock = 0
  /\ conn' = [conn EXCEPT ![t] = 0]
  /\ pc' = [pc EXCEPT ![t] = "idle"]
  /\ held' = [held EXCEPT ![t] = FALSE]
  /\ event' = "discarded"
  /\ UNCHANGED <<max_connections, pool, active_connections, lock, status, checked_out,
                 remaining, elapsed, savedActive, decs, doubles, busyAtCall>>

\* with self.lock: self.active_connections -= 1; release_connection returns
ReleaseDec(t) ==
  /\ pc[t] = "r_lock"
  /\ lock = 0
  /\ active_connections' = active_connections - 1
  /\ decs' = [decs EXCEPT ![conn[t]] = @ + 1]
  /\ conn' = [conn EXCEPT ![t] = 0]
  /\ pc' = [pc EXCEPT ![t] = "idle"]
  /\ held' = [held EXCEPT ![t] = FALSE]
  /\ event' = "discarded"
  /\ UNCHANGED <<max_connections, pool, lock, status, checked_out, remaining,
                 elapsed, savedActive, doubles, busyAtCall>>

\* ---------------------------------------------------------------- close_all

\* a thread calls close_all (the label of a close_all that has just returned stays,
\* so that a call made right after it can be told)
CloseAllCall(t) ==
  /\ pc[t] = "idle"
  /\ pc' = [pc EXCEPT ![t] = "c_loop"]
  /\ event' = IF event = "drained" THEN "drained" ELSE "none"
  /\ UNCHANGED <<max_connections, pool, active_connections, lock, status, checked_out,
                 conn, remaining, elapsed, savedActive, decs, doubles, busyAtCall, held>>

\* a close_all that decrements the counter once more when it finds the queue empty
CloseNextCounting(t) ==
  /\ pc[t] = "c_loop"
  /\ IF pool = <<>>
       THEN /\ pc' = [pc EXCEPT ![t] = "idle"]
            /\ event' = IF event = "drained" THEN "again" ELSE "drained"
            /\ active_connections' = active_connections - 1
            /\ UNCHANGED <<pool, conn>>
       ELSE /\ pool' = Tail(pool)
            /\ conn' = [conn EXCEPT ![t] = Head(pool)]
            /\ pc' = [pc EXCEPT ![t] = "c_close"]
            /\ event' = "none"
            /\ UNCHANGED active_connections
  /\ UNCHANGED <<max_connections, lock, status, checked_out,
                 remaining, elapsed, savedActive, decs, doubles, busyAtCall, held>>

\* while not self.pool.empty(): connection = self.pool.get(block=False): the head
\* of the queue is taken; with the queue empty close_all returns ("drained", or
\* "again" when it was called right after a close_all that had returned)
CloseNext(t) ==
  /\ pc[t] = "c_loop"
  /\ IF pool = <<>>
       THEN /\ pc' = [pc EXCEPT ![t] = "idle"]
            /\ event' = IF event = "drained" THEN "again" ELSE "drained"
            /\ UNCHANGED <<pool, conn>>
       ELSE /\ pool' = Tail(pool)
            /\ conn' = [conn EXCEPT ![t] = Head(pool)]
            /\ pc' = [pc EXCEPT ![t] = "c_close"]
            /\ event' = "none"
  /\ UNCHANGED <<max_connections, active_connections, lock, status, checked_out,
                 remaining, elapsed, savedActive, decs, doubles, busyAtCall, held>>

\* connection.close() (no lock held): it returns and the decrement follows, or it
\* raises and except Exception skips the decrement and goes round the loop
CloseClose(t) ==
  /\ pc[t] = "c_close"
  /\ status' = [status EXCEPT ![conn[t]] = "closed"]
  /\ \E closeOk \in BOOLEAN :
       IF closeOk
         THEN /\ pc' = [pc EXCEPT ![t] = "c_lock"]
              /\ UNCHANGED conn
         ELSE /\ pc' = [pc EXCEPT ![t] = "c_loop"]
              /\ conn' = [conn EXCEPT ![t] = 0]
  /\ event' = "none"
  /\ UNCHANGED <<max_connections, pool, active_connections, lock, checked_out,
                 remaining, elapsed, savedActive, decs, doubles, busyAtCall, held>>

\* with self.lock: self.active_connections -= 1
CloseDec(t) ==
  /\ pc[t] = "c_lock"
  /\ lock = 0
  /\ active_connections' = active_connections - 1
  /\ decs' = [decs EXCEPT ![conn[t]] = @ + 1]
  /\ conn' = [conn EXCEPT ![t] = 0]
  /\ pc' = [pc EXCEPT ![t] = "c_loop"]
  /\ event' = "none"
  /\ UNCHANGED <<max_connections, pool, lock, status, checked_out, remaining,
                 elapsed, savedActive, doubles, busyAtCall, held>>

\* ---------------------------------------------------------------- environment

\* the remote endpoint drops a session: its next probe (SELECT 1) raises
EndpointDrop(s) ==
  /\ status[s] = "live"
  /\ status' = [status EXCEPT ![s] = "stale"]
  /\ event' = "none"
  /\ UNCHANGED <<max_connections, pool, active_connections, lock, pc, checked_out,
                 conn, remaining, elapsed, savedActive, decs, doubles, busyAtCall, held>>

\* one unit of time passes for the thread blocked in connect or pool.get;
\* a call whose timeout is up ends before more time passes
Tick ==
  /\ Waiting # {}
  /\ remaining > 0
  /\ remaining' = remaining - 1
  /\ event' = "none"
  /\ UNCHANGED <<max_connections, pool, active_connections, lock, status, pc, checked_out,
                 conn, elapsed, savedActive, decs, doubles, busyAtCall, held>>

\* the same unit of time, also measured against every call of get_connection in
\* progress (the lock holder's and those of the threads blocked on self.lock)
TickMeasured ==
  /\ Waiting # {}
  /\ remaining > 0
  /\ remaining' = remaining - 1
  /\ elapsed' = [t \in Threads |->
                   IF pc[t] \in GetPcs /\ elapsed[t] < ElapsedCap
                     THEN elapsed[t] + 1 ELSE elapsed[t]]
  /\ event' = "none"
  /\ UNCHANGED <<max_connections, pool, active_connections, lock, status, pc, checked_out,
                 conn, savedActive, decs, doubles, busyAtCall, held>>

\* ---------------------------------------------------------------- DatabricksClient.execute_query

\* the pool variables a step outside the pool's code leaves alone
poolState == <<max_connections, pool, active_connections, lock, status, pc, checked_out,
               conn, remaining, elapsed, savedActive, decs, doubles, busyAtCall, held>>

\* execute_query (or test_connection) returns or raises: its locals are gone, the
\* outcome is the caller's
ExecEnd(t, outcome) ==
  /\ q_pc' = [q_pc EXCEPT ![t] = "out"]
  /\ connection' = [connection EXCEPT ![t] = 0]
  /\ releases' = [releases EXCEPT ![t] = 0]
  /\ q_result' = [q_result EXCEPT ![t] = outcome]

\* connection = None; connection = self.connection_pool.get_connection(): the
\* non-blocking get returns an idle connection, or the call goes on to the lock
ExecStart(t) ==
  /\ q_pc[t] = "out"
  /\ GetTry(t)
  /\ IF pool # <<>>
       THEN /\ connection' = [connection EXCEPT ![t] = Head(pool)]
            /\ q_pc' = [q_pc EXCEPT ![t] = "cursor"]
       ELSE /\ connection' = [connection EXCEPT ![t] = 0]
            /\ q_pc' = [q_pc EXCEPT ![t] = "get"]
  /\ q_result' = [q_result EXCEPT ![t] = "none"]
  /\ UNCHANGED <<releases, opsVars>>

\* get_connection takes the lock
ExecGetLock(t) ==
  /\ q_pc[t] = "get"
  /\ GetLock(t)
  /\ UNCHANGED <<clientVars, opsVars>>

\* get_connection returns a new connection, or raises: except Exception: raise,
\* and the finally block finds connection still None
ExecConnect(t) ==
  /\ q_pc[t] = "get"
  /\ GetConnect(t)
  /\ IF status' # status
       THEN /\ connection' = [connection EXCEPT ![t] = opened + 1]
            /\ q_pc' = [q_pc EXCEPT ![t] = "cursor"]
            /\ UNCHANGED <<releases, q_result>>
       ELSE ExecEnd(t, "raised")
  /\ UNCHANGED opsVars

\* get_connection returns the connection its blocking get took
ExecWaitTake(t) ==
  /\ q_pc[t] = "get"
  /\ GetWaitTake(t)
  /\ connection' = [connection EXCEPT ![t] = Head(pool)]
  /\ q_pc' = [q_pc EXCEPT ![t] = "cursor"]
  /\ UNCHANGED <<releases, q_result, opsVars>>

\* get_connection raises TimeoutException; connection is still None
ExecTimeout(t) ==
  /\ q_pc[t] = "get"
  /\ GetTimeout(t)
  /\ ExecEnd(t, "raised")
  /\ UNCHANGED opsVars

\* with connection.cursor() as cursor: cursor.execute(...); fetchall(); the rows are
\* built, or one of these raises (except Exception: raise), as they must on a
\* connection that is closed or dropped by the endpoint
ExecCursor(t) ==
  /\ q_pc[t] = "cursor"
  /\ \E ok \in (IF ProbeOk(connection[t]) THEN BOOLEAN ELSE {FALSE}) :
       q_pc' = [q_pc EXCEPT ![t] = IF ok THEN "finally_ok" ELSE "finally_err"]
  /\ event' = "none"
  /\ UNCHANGED <<poolState, connection, releases, q_result, opsVars>>

\* how execute_query ends after its finally block
ExecOutcome(t) == IF q_pc[t] \in {"finally_ok", "rel_ok"} THEN "rows" ELSE "raised"

\* a release placed after the query instead of in a finally block
ExecFinallyOnSuccess(t) ==
  /\ q_pc[t] \in {"finally_ok", "finally_err"}
  /\ IF q_pc[t] = "finally_ok"
       THEN /\ Release(t, connection[t])
            /\ checked_out' = [checked_out EXCEPT ![connection[t]] = @ - 1]
            /\ held' = [held EXCEPT ![t] = TRUE]
            /\ releases' = [releases EXCEPT ![t] = @ + 1]
            /\ q_pc' = [q_pc EXCEPT ![t] = "rel_ok"]
            /\ UNCHANGED <<connection, q_result, doubles>>
       ELSE /\ ExecEnd(t, ExecOutcome(t))
            /\ event' = "none"
            /\ UNCHANGED poolState
  /\ UNCHANGED opsVars

\* a finally block that sends the connection of a failed query straight to the
\* close, whatever the probe says
ExecFinallyDispose(t) ==
  /\ q_pc[t] \in {"finally_ok", "finally_err"}
  /\ connection[t] # 0
  /\ IF q_pc[t] = "finally_ok"
       THEN Release(t, connection[t])
       ELSE /\ conn' = [conn EXCEPT ![t] = connection[t]]
            /\ pc' = [pc EXCEPT ![t] = "r_close"]
            /\ event' = "none"
            /\ UNCHANGED <<max_connections, pool, active_connections, lock, status,
                           remaining, elapsed, savedActive, decs, busyAtCall>>
  /\ checked_out' = [checked_out EXCEPT ![connection[t]] = @ - 1]
  /\ held' = [held EXCEPT ![t] = TRUE]
  /\ releases' = [releases EXCEPT ![t] = @ + 1]
  /\ q_pc' = [q_pc EXCEPT ![t] = IF q_pc[t] = "finally_ok" THEN "rel_ok" ELSE "rel_err"]
  /\ UNCHANGED <<connection, q_result, doubles, opsVars>>

\* finally: if connection: self.connection_pool.release_connection(connection),
\* after the query returned its rows or raised: release_connection makes its probe
ExecFinally(t) ==
  /\ q_pc[t] \in {"finally_ok", "finally_err"}
  /\ connection[t] # 0
  /\ Release(t, connection[t])
  /\ checked_out' = [checked_out EXCEPT ![connection[t]] = @ - 1]
  /\ held' = [held EXCEPT ![t] = TRUE]
  /\ releases' = [releases EXCEPT ![t] = @ + 1]
  /\ q_pc' = [q_pc EXCEPT ![t] = IF q_pc[t] = "finally_ok" THEN "rel_ok" ELSE "rel_err"]
  /\ UNCHANGED <<connection, q_result, doubles, opsVars>>

\* release_connection puts the connection in the queue and returns, and execute_query
\* returns its rows or re-raises the query's exception; or the queue is full
ExecReleasePut(t) ==
  /\ q_pc[t] \in {"rel_ok", "rel_err"}
  /\ ReleasePut(t)
  /\ IF pc'[t] = "idle"
       THEN ExecEnd(t, ExecOutcome(t))
       ELSE UNCHANGED clientVars
  /\ UNCHANGED opsVars

\* release_connection closes the connection
ExecReleaseClose(t) ==
  /\ q_pc[t] \in {"rel_ok", "rel_err"}
  /\ ReleaseClose(t)
  /\ UNCHANGED <<clientVars, opsVars>>

\* release_connection decrements the counter for the closed connection and returns;
\* execute_query returns its rows or re-raises the query's exception
ExecReleaseDec(t) ==
  /\ q_pc[t] \in {"rel_ok", "rel_err"}
  /\ ReleaseDec(t)
  /\ ExecEnd(t, ExecOutcome(t))
  /\ UNCHANGED opsVars

\* ---------------------------------------------------------------- DatabricksClient.test_connection

\* how test_connection ends after its finally block: return True, or the query's
\* exception is re-raised and the outer except Exception returns False
TestOutcome(t) == IF q_pc[t] \in {"t_finally_ok", "t_rel_ok"} THEN "True" ELSE "False"

\* WorkspaceClient(...) or self.workspace_client.current_user.me() raises: the outer
\* except returns False before the pool is touched
TestApiFail(t) ==
  /\ q_pc[t] = "out"
  /\ pc[t] = "idle"
  /\ q_result' = [q_result EXCEPT ![t] = "False"]
  /\ event' = "none"
  /\ UNCHANGED <<poolState, q_pc, connection, releases, opsVars>>

\* connection = self.connection_pool.get_connection(), after the API check passed
TestStart(t) ==
  /\ q_pc[t] = "out"
  /\ GetTry(t)
  /\ IF pool # <<>>
       THEN /\ connection' = [connection EXCEPT ![t] = Head(pool)]
            /\ q_pc' = [q_pc EXCEPT ![t] = "t_cursor"]
       ELSE /\ connection' = [connection EXCEPT ![t] = 0]
            /\ q_pc' = [q_pc EXCEPT ![t] = "t_get"]
  /\ q_result' = [q_result EXCEPT ![t] = "none"]
  /\ UNCHANGED <<releases, opsVars>>

\* get_connection takes the lock
TestGetLock(t) ==
  /\ q_pc[t] = "t_get"
  /\ GetLock(t)
  /\ UNCHANGED <<clientVars, opsVars>>

\* get_connection returns a new connection, or raises: the inner try/finally is not
\* entered, except Exception: raise, and the outer except returns False
TestConnect(t) ==
  /\ q_pc[t] = "t_get"
  /\ GetConnect(t)
  /\ IF status' # status
       THEN /\ connection' = [connection EXCEPT ![t] = opened + 1]
            /\ q_pc' = [q_pc EXCEPT ![t] = "t_cursor"]
            /\ UNCHANGED <<releases, q_result>>
       ELSE ExecEnd(t, "False")
  /\ UNCHANGED opsVars

\* get_connection returns the connection its blocking get took
TestWaitTake(t) ==
  /\ q_pc[t] = "t_get"
  /\ GetWaitTake(t)
  /\ connection' = [connection EXCEPT ![t] = Head(pool)]
  /\ q_pc' = [q_pc EXCEPT ![t] = "t_cursor"]
  /\ UNCHANGED <<releases, q_result, opsVars>>

\* get_connection raises TimeoutException: except TimeoutException: return False
TestTimeout(t) ==
  /\ q_pc[t] = "t_get"
  /\ GetTimeout(t)
  /\ ExecEnd(t, "False")
  /\ UNCHANGED opsVars

\* with connection.cursor() as cursor: cursor.execute("SELECT 1"); fetchall(), or
\* one of these raises, as they must on a connection that is closed or dropped
TestCursor(t) ==
  /\ q_pc[t] = "t_cursor"
  /\ \E ok \in (IF ProbeOk(connection[t]) THEN BOOLEAN ELSE {FALSE}) :
       q_pc' = [q_pc EXCEPT ![t] = IF ok THEN "t_finally_ok" ELSE "t_finally_err"]
  /\ event' = "none"
  /\ UNCHANGED <<poolState, connection, releases, q_result, opsVars>>

\* finally: self.connection_pool.release_connection(connection): its probe
TestFinally(t) ==
  /\ q_pc[t] \in {"t_finally_ok", "t_finally_err"}
  /\ Release(t, connection[t])
  /\ checked_out' = [checked_out EXCEPT ![connection[t]] = @ - 1]
  /\ held' = [held EXCEPT ![t] = TRUE]
  /\ releases' = [releases EXCEPT ![t] = @ + 1]
  /\ q_pc' = [q_pc EXCEPT ![t] = IF q_pc[t] = "t_finally_ok" THEN "t_rel_ok" ELSE "t_rel_err"]
  /\ UNCHANGED <<connection, q_result, doubles, opsVars>>

\* release_connection puts the connection in the queue and returns, and
\* test_connection returns True or False; or the queue is full
TestReleasePut(t) ==
  /\ q_pc[t] \in {"t_rel_ok", "t_rel_err"}
  /\ ReleasePut(t)
  /\ IF pc'[t] = "idle"
       THEN ExecEnd(t, TestOutcome(t))
       ELSE UNCHANGED clientVars
  /\ UNCHANGED opsVars

\* release_connection closes the connection
TestReleaseClose(t) ==
  /\ q_pc[t] \in {"t_rel_ok", "t_rel_err"}
  /\ ReleaseClose(t)
  /\ UNCHANGED <<clientVars, opsVars>>

\* release_connection decrements the counter and returns; test_connection returns
TestReleaseDec(t) ==
  /\ q_pc[t] \in {"t_rel_ok", "t_rel_err"}
  /\ ReleaseDec(t)
  /\ ExecEnd(t, TestOutcome(t))
  /\ UNCHANGED opsVars

\* ---------------------------------------------------------------- DatabricksClient.close

\* if self.connection_pool: self.connection_pool.close_all()
ClientClose(t) ==
  /\ q_pc[t] = "out"
  /\ CloseAllCall(t)
  /\ q_pc' = [q_pc EXCEPT ![t] = "closing"]
  /\ UNCHANGED <<connection, releases, q_result, opsVars>>

\* close_all takes the head of the queue, or finds it empty and returns, and so
\* does close()
ClientCloseNext(t) ==
  /\ q_pc[t] = "closing"
  /\ CloseNext(t)
  /\ q_pc' = [q_pc EXCEPT ![t] = IF pc'[t] = "idle" THEN "out" ELSE "closing"]
  /\ UNCHANGED <<connection, releases, q_result, opsVars>>

\* close_all closes the connection it took
ClientCloseClose(t) ==
  /\ q_pc[t] = "closing"
  /\ CloseClose(t)
  /\ UNCHANGED <<clientVars, opsVars>>

\* close_all decrements the counter
ClientCloseDec(t) ==
  /\ q_pc[t] = "closing"
  /\ CloseDec(t)
  /\ UNCHANGED <<clientVars, opsVars>>

\* ---------------------------------------------------------------- DataOperations

\* the country codes records are made of
Codes == {"AA", "BB", "CC"}

\* the methods with the kinds of argument each takes: create_record a dict,
\* add_record a CountryCurrency object, update_record either, delete_record and
\* get_record_by_id the country code itself, get_all_records a filter or none,
\* count_records none
Methods ==
  {<<"create_record", "dict">>, <<"add_record", "object">>,
   <<"update_record", "dict">>, <<"update_record", "object">>,
   <<"delete_record", "str">>,
   <<"get_record_by_id", "str">>,
   <<"get_all_records", "none">>, <<"get_all_records", "filter">>,
   <<"count_records", "none">>}

\* the country codes a call of the method can be about: get_all_records and
\* count_records take none and pass no parameter to execute_query
CodesOf(m) == IF m[1] \in {"get_all_records", "count_records"} THEN {"none"} ELSE Codes

\* the thread that calls the DataOperations methods, and a thread that uses the
\* same client for queries of its own
OpsCaller == 1
OtherCaller == 2

\* what client.execute_query can give back for each query: it raises, or returns
\* the rows (the count of a COUNT(*) query, the record of a SELECT by country
\* code if it is there, the records of the table, nothing for a statement)
QueryOutcomes(q) ==
  {[raised |-> TRUE, rows |-> <<>>]} \cup
  CASE q \in {"check", "count"} ->
         {[raised |-> FALSE, rows |-> r] : r \in {<<>>} \cup {<<n>> : n \in 0..MaxCount}}
    [] q \in {"verify", "select_one"} -> {[raised |-> FALSE, rows |-> r] : r \in {<<>>, <<1>>}}
    [] q = "select_all" -> {[raised |-> FALSE, rows |-> r] : r \in {<<>>, <<1>>, <<1, 2>>}}
    [] OTHER        -> {[raised |-> FALSE, rows |-> <<>>]}

\* the caller's execute_query for query q has ended: what it gave back, raised
\* exactly if the call raised (from get_connection or from the cursor)
Returned(q) ==
  IF q_pc[OpsCaller] = "out" /\ q_result[OpsCaller] # "none"
    THEN {res \in QueryOutcomes(q) : res.raised <=> q_result[OpsCaller] = "raised"}
    ELSE {}

\* self.client.execute_query(query, (country_code, ...)) has been called and ended with res
Called(q, res) == Append(calls, [q |-> q, country_code |-> record.country_code, res |-> res])

\* the method has the outcome of its execute_query and goes on: the pool is as the
\* call left it
Taken ==
  /\ q_result' = [q_result EXCEPT ![OpsCaller] = "none"]
  /\ event' = "none"
  /\ UNCHANGED <<poolState, q_pc, connection, releases>>

\* a caller calls one of the methods; add_record and update_record first turn a
\* CountryCurrency object into a dict, which keeps its country_code; the
\* methods that read build their query
OpCall ==
  /\ op_pc = "idle"
  /\ q_pc[OpsCaller] = "out"
  /\ \E m \in Methods : \E c \in CodesOf(m) :
       /\ method' = m[1]
       /\ record' = [kind |-> m[2], country_code |-> c]
       /\ op_pc' = CASE m[1] \in {"create_record", "add_record"} -> "insert"
                      [] m[1] = "update_record" -> "check"
                      [] m[1] = "delete_record" -> "delete"
                      [] m[1] = "get_record_by_id" -> "select_one"
                      [] m[1] = "get_all_records" -> "select_all"
                      [] OTHER -> "count"
  /\ calls' = <<>>
  /\ ret' = "none"
  /\ event' = "none"
  /\ UNCHANGED <<poolState, clientVars>>

\* the method in progress calls self.client.execute_query for its next query
OpQuery ==
  /\ op_pc # "idle"
  /\ q_result[OpsCaller] = "none"
  /\ ExecStart(OpsCaller)

\* create_record: try: execute_query(INSERT ...); return True; except Exception: return False
CreateRecord ==
  /\ op_pc = "insert"
  /\ \E res \in Returned("insert") :
       /\ calls' = Called("insert", res)
       /\ ret' = IF res.raised THEN "False" ELSE "True"
  /\ op_pc' = "idle"
  /\ Taken
  /\ UNCHANGED <<method, record>>

\* delete_record: try: execute_query(DELETE ...); return True; except Exception: return False
DeleteRecord ==
  /\ op_pc = "delete"
  /\ \E res \in Returned("delete") :
       /\ calls' = Called("delete", res)
       /\ ret' = IF res.raised THEN "False" ELSE "True"
  /\ op_pc' = "idle"
  /\ Taken
  /\ UNCHANGED <<method, record>>

\* an existence check that takes only an empty result for a missing record
RecordMissingLax(check_result) == check_result = <<>>

\* if not check_result or check_result[0]['count'] == 0
RecordMissing(check_result) == check_result = <<>> \/ check_result[1] = 0

\* update_record: check_result = execute_query(SELECT COUNT(*) ...), outside any try:
\* an exception leaves the method; a missing record returns False
UpdateCheck ==
  /\ op_pc = "check"
  /\ \E res \in Returned("check") :
       /\ calls' = Called("check", res)
       /\ IF res.raised
            THEN ret' = "raised" /\ op_pc' = "idle"
            ELSE IF RecordMissing(res.rows)
                   THEN ret' = "False" /\ op_pc' = "idle"
                   ELSE ret' = ret /\ op_pc' = "update"
  /\ Taken
  /\ UNCHANGED <<method, record>>

\* update_record: try: execute_query(UPDATE ...); except Exception: return False
UpdateExecute ==
  /\ op_pc = "update"
  /\ \E res \in Returned("update") :
       /\ calls' = Called("update", res)
       /\ IF res.raised
            THEN ret' = "False" /\ op_pc' = "idle"
            ELSE ret' = ret /\ op_pc' = "verify"
  /\ Taken
  /\ UNCHANGED <<method, record>>

\* update_record: verify_result = execute_query(SELECT * ...); return True if it
\* has the record, else False; except Exception: return False
UpdateVerify ==
  /\ op_pc = "verify"
  /\ \E res \in Returned("verify") :
       /\ calls' = Called("verify", res)
       /\ ret' = IF ~res.raised /\ res.rows # <<>> THEN "True" ELSE "False"
  /\ op_pc' = "idle"
  /\ Taken
  /\ UNCHANGED <<method, record>>

\* get_all_records: try: result = execute_query(SELECT * ... ORDER BY country_code);
\* return result; except Exception: return []
GetAllRecords ==
  /\ op_pc = "select_all"
  /\ \E res \in Returned("select_all") :
       /\ calls' = Called("select_all", res)
       /\ ret' = IF res.raised THEN ToString(<<>>) ELSE ToString(res.rows)
  /\ op_pc' = "idle"
  /\ Taken
  /\ UNCHANGED <<method, record>>

\* get_record_by_id: try: result = execute_query(SELECT * ... WHERE country_code = ?);
\* return result[0] if result else None; except Exception: return None
GetRecordById ==
  /\ op_pc = "select_one"
  /\ \E res \in Returned("select_one") :
       /\ calls' = Called("select_one", res)
       /\ ret' = IF ~res.raised /\ res.rows # <<>> THEN ToString(res.rows[1]) ELSE "None"
  /\ op_pc' = "idle"
  /\ Taken
  /\ UNCHANGED <<method, record>>

\* count_records: try: result = execute_query(SELECT COUNT(*) as count ...);
\* return result[0]['count'] if result else 0; except Exception: return 0
CountRecords ==
  /\ op_pc = "count"
  /\ \E res \in Returned("count") :
       /\ calls' = Called("count", res)
       /\ ret' = IF ~res.raised /\ res.rows # <<>> THEN ToString(res.rows[1]) ELSE ToString(0)
  /\ op_pc' = "idle"
  /\ Taken
  /\ UNCHANGED <<method, record>>

\* ---------------------------------------------------------------- specifications

\* the pool's operations, by callers that release only what they hold
PoolStep ==
  \/ \E t \in Threads : GetTry(t) /\ Apart
  \/ \E t \in Threads : GetLock(t) /\ Apart
  \/ \E t \in Threads : GetConnect(t) /\ Apart
  \/ \E t \in Threads : GetWaitTake(t) /\ Apart
  \/ \E t \in Threads : GetTimeout(t) /\ Apart
  \/ \E t \in Threads : ReleaseProbe(t) /\ Apart
  \/ \E t \in Threads : ReleasePut(t) /\ Apart
  \/ \E t \in Threads : ReleaseClose(t) /\ Apart
  \/ \E t \in Threads : ReleaseDec(t) /\ Apart
  \/ \E t \in Threads : CloseAllCall(t) /\ Apart
  \/ \E t \in Threads : CloseNext(t) /\ Apart
  \/ \E t \in Threads : CloseClose(t) /\ Apart
  \/ \E t \in Threads : CloseDec(t) /\ Apart
  \/ \E s \in Sessions : EndpointDrop(s) /\ Apart

\* every call sequence the pool's interface admits, double release included
Next ==
  \/ PoolStep
  \/ \E t \in Threads : DoubleRelease(t) /\ Apart
  \/ Tick /\ Apart

Spec == Init /\ [][Next]_vars

\* callers that pass each connection they got to release_connection at most once
NextContract ==
  \/ PoolStep
  \/ Tick /\ Apart

SpecContract == Init /\ [][NextContract]_vars

\* the same callers, with the time each get_connection takes measured
NextTimed ==
  \/ PoolStep
  \/ TickMeasured /\ Apart

SpecTimed == Init /\ [][NextTimed]_vars

\* scheduling: a thread that can run runs (a connect or a blocking get in progress
\* ends, time passes, a thread blocked on self.lock takes it if it stays free);
\* threading.Lock promises no order among the threads blocked on it
Fairness ==
  /\ \A t \in Threads : WF_vars(GetLock(t) /\ Apart)
  /\ \A t \in Threads : WF_vars(GetConnect(t) /\ Apart)
  /\ \A t \in Threads : WF_vars((GetWaitTake(t) \/ GetTimeout(t)) /\ Apart)
  /\ WF_vars(Tick /\ Apart)

SpecFair == Init /\ [][NextContract]_vars /\ Fairness

\* threads that use the pool through the client only: execute_query,
\* test_connection and close
NextClient ==
  \/ \E t \in Threads : ExecStart(t)
  \/ \E t \in Threads : ExecGetLock(t)
  \/ \E t \in Threads : ExecConnect(t)
  \/ \E t \in Threads : ExecWaitTake(t)
  \/ \E t \in Threads : ExecTimeout(t)
  \/ \E t \in Threads : ExecCursor(t)
  \/ \E t \in Threads : ExecFinally(t)
  \/ \E t \in Threads : ExecReleasePut(t)
  \/ \E t \in Threads : ExecReleaseClose(t)
  \/ \E t \in Threads : ExecReleaseDec(t)
  \/ \E t \in Threads : TestApiFail(t)
  \/ \E t \in Threads : TestStart(t)
  \/ \E t \in Threads : TestGetLock(t)
  \/ \E t \in Threads : TestConnect(t)
  \/ \E t \in Threads : TestWaitTake(t)
  \/ \E t \in Threads : TestTimeout(t)
  \/ \E t \in Threads : TestCursor(t)
  \/ \E t \in Threads : TestFinally(t)
  \/ \E t \in Threads : TestReleasePut(t)
  \/ \E t \in Threads : TestReleaseClose(t)
  \/ \E t \in Threads : TestReleaseDec(t)
  \/ \E t \in Threads : ClientClose(t)
  \/ \E t \in Threads : ClientCloseNext(t)
  \/ \E t \in Threads : ClientCloseClose(t)
  \/ \E t \in Threads : ClientCloseDec(t)
  \/ \E s \in Sessions : EndpointDrop(s) /\ Apart
  \/ Tick /\ Apart

SpecClient == Init /\ [][NextClient]_vars

\* one caller of the DataOperations methods, each of whose queries runs
\* through execute_query on the shared pool, next to another thread that runs
\* queries of its own
NextOps ==
  \/ OpCall
  \/ OpQuery
  \/ CreateRecord
  \/ DeleteRecord
  \/ UpdateCheck
  \/ UpdateExecute
  \/ UpdateVerify
  \/ GetAllRecords
  \/ GetRecordById
  \/ CountRecords
  \/ ExecStart(OtherCaller)
  \/ \E t \in Threads : ExecGetLock(t)
  \/ \E t \in Threads : ExecConnect(t)
  \/ \E t \in Threads : ExecWaitTake(t)
  \/ \E t \in Threads : ExecTimeout(t)
  \/ \E t \in Threads : ExecCursor(t)
  \/ \E t \in Threads : ExecFinally(t)
  \/ \E t \in Threads : ExecReleasePut(t)
  \/ \E t \in Threads : ExecReleaseClose(t)
  \/ \E t \in Threads : ExecReleaseDec(t)
  \/ \E s \in Sessions : EndpointDrop(s) /\ Apart
  \/ Tick /\ Apart

SpecOps == Init /\ [][NextOps]_vars

\* ---------------------------------------------------------------- claims

\* C1: in every reachable state active_connections <= max_connections.
C1_ActiveWithinMax == active_connections <= max_connections

\* C1 witness: the pool is at its limit and a caller is kept waiting for it.
C1_Witness ==
  /\ active_connections = max_connections
  /\ \E t \in Threads : pc[t] = "g_wait"

\* C2: no connection is held by two callers at once: one that get_connection
\* returned is not returned again before its holder released it.
C2_ExclusiveHolder == \A s \in Sessions : checked_out[s] <= 1

\* C3: releasing a connection twice decrements active_connections at most once
\* for it and never puts it twice in the idle queue.
C3_DoubleReleaseHarmless ==
  /\ \A i, j \in DOMAIN pool : i # j => pool[i] # pool[j]
  /\ \A s \in Sessions : decs[s] <= 1

\* C4 as stated: with max_connections = 1, a get_connection issued while a
\* connection is checked out never opens a connection; it ends only with the
\* released connection taken from the queue or with TimeoutException.
C4_SecondCallWaitsForFirst ==
  [][\A t \in Threads :
       (max_connections = 1 /\ busyAtCall[t] /\ pc[t] \in GetPcs) =>
          /\ pc'[t] # "g_connect"
          /\ pc'[t] = "idle" => event' \in {"waited", "timeout"}]_vars

\* C4 amended: with max_connections = 1, a get_connection that finds
\* active_connections = 1 at its capacity check opens nothing and waits; the wait
\* ends only by taking a connection a release put in the queue, or by
\* TimeoutException once the timeout has run down with the queue still empty.
\* A call whose capacity check finds active_connections = 0 goes on to connect,
\* also when a connection was checked out at the time the call was issued.
C4_AtCapacityWaits ==
  [][\A t \in Threads : max_connections = 1 =>
       /\ (pc[t] = "g_lock" /\ pc'[t] # "g_lock" /\ active_connections = 1) =>
            pc'[t] = "g_wait" /\ status' = status /\ active_connections' = 1
       /\ (pc[t] = "g_lock" /\ pc'[t] # "g_lock" /\ active_connections < 1) =>
            pc'[t] = "g_connect"
       /\ (pc[t] = "g_wait" /\ pc'[t] # "g_wait") =>
            /\ status' = status
            /\ active_connections' = 1
            /\ \/ /\ event' = "waited"
                  /\ pool # <<>>
                  /\ checked_out' = [checked_out EXCEPT ![Head(pool)] = @ + 1]
               \/ /\ event' = "timeout"
                  /\ pool = <<>>
                  /\ remaining = 0
                  /\ checked_out' = checked_out]_vars

\* C4 witness: in a pool of one, a waiting caller has just been handed the released connection.
C4_Witness ==
  /\ max_connections = 1
  /\ event = "waited"
  /\ active_connections = 1
  /\ \E s \in Sessions : checked_out[s] = 1

\* C5: every get_connection call that does not return at once eventually
\* completes (with a connection, TimeoutException or the connect error),
\* whatever the other callers do.
C5_GetCompletes == \A t \in Threads : (pc[t] \in GetPcs) ~> (pc[t] = "idle")

\* C6: release_connection and close_all never wait for another thread: whenever
\* one of them is at its "with self.lock", the lock is free.
C6_OnlyGetBlocks == \A t \in Threads : pc[t] \in {"r_lock", "c_lock"} => lock = 0

\* C7: a caller that found the pool at capacity is still waiting only while no
\* more than one connection_timeout has passed since it called get_connection.
C7_WaitWithinTimeout == \A t \in Threads : pc[t] = "g_wait" => elapsed[t] <= TimeoutTicks

\* C8: when connect fails, get_connection raises with active_connections back
\* at the value it had when the call entered the lock, below the limit, and the lock free.
C8_FailedOpenRollsBack ==
  [][\A t \in Threads :
       (pc[t] = "g_connect" /\ pc'[t] = "idle" /\ status' = status) =>
          /\ event' = "connfail"
          /\ active_connections' = savedActive
          /\ active_connections' < max_connections
          /\ lock' = 0]_vars

\* C8 witness: a connect has just failed and the slot is free for the next caller.
C8_Witness ==
  /\ event = "connfail"
  /\ active_connections < max_connections
  /\ lock = 0

\* C9: a get_connection that ends with TimeoutException has changed neither
\* active_connections nor the idle queue nor any connection: not when it found
\* the queue empty, not when it found the pool at capacity, not when it timed out.
C9_TimeoutLeavesPool ==
  [][\A t \in Threads :
       (\/ pc[t] = "idle" /\ pc'[t] = "g_lock"
        \/ pc[t] = "g_lock" /\ pc'[t] = "g_wait"
        \/ pc[t] = "g_wait" /\ event' = "timeout") =>
          /\ active_connections' = active_connections
          /\ pool' = pool
          /\ status' = status
          /\ checked_out' = checked_out
          /\ pc[t] = "g_wait" => active_connections = savedActive]_vars

\* C9 witness: a call has just timed out and the pool is still at capacity, the queue empty.
C9_Witness ==
  /\ event = "timeout"
  /\ active_connections = max_connections
  /\ pool = <<>>
  /\ lock = 0

\* C10: a get_connection called with the idle queue non-empty returns the head
\* of the queue in that same step: it never goes on to the lock, opens nothing
\* and leaves active_connections unchanged.
C10_IdleReusedAtOnce ==
  [][/\ \A t \in Threads : (pc[t] = "idle" /\ pool # <<>>) => pc'[t] # "g_lock"
     /\ event' = "reused" =>
          /\ pool # <<>>
          /\ pool' = Tail(pool)
          /\ checked_out' = [checked_out EXCEPT ![Head(pool)] = @ + 1]
          /\ active_connections' = active_connections
          /\ status' = status
          /\ pc' = pc
          /\ lock' = lock]_vars

\* C10 witness: a caller has just been handed an idle connection.
C10_Witness ==
  /\ event = "reused"
  /\ \E s \in Sessions : checked_out[s] = 1 /\ status[s] # "unopened"

\* C11: every connection get_connection returns is live when it is returned:
\* neither closed nor dropped by the endpoint, also one taken from the idle queue.
C11_ReturnedLive ==
  [][(event' \in {"reused", "waited"} /\ pool # <<>> /\ pool' = Tail(pool)) =>
        status[Head(pool)] = "live"]_vars

\* C12: release_connection of a checked-out connection whose probe succeeds goes on
\* to the put, and the put appends the connection to the idle queue, where the
\* next get_connection finds it, leaves active_connections unchanged, closes
\* nothing, and the call returns.
C12_LiveReleaseQueued ==
  [][\A t \in Threads :
       /\ (pc[t] = "idle" /\ pc'[t] \in {"r_put", "r_close"} /\ held'[t]
             /\ ProbeOk(conn'[t])) =>
            /\ pc'[t] = "r_put"
            /\ pool' = pool /\ active_connections' = active_connections /\ status' = status
       /\ (pc[t] = "r_put" /\ held[t] /\ pc'[t] # "r_put") =>
            /\ pool' = Append(pool, conn[t])
            /\ active_connections' = active_connections
            /\ status' = status
            /\ pc'[t] = "idle"]_vars

\* C13: release_connection of a checked-out connection whose probe fails goes on to
\* close it, leaves the idle queue as it is, and returns after decrementing
\* active_connections by exactly one; nothing is raised, also when close() fails.
C13_DeadReleaseDiscards ==
  [][\A t \in Threads :
       /\ (pc[t] = "idle" /\ pc'[t] \in {"r_put", "r_close"} /\ held'[t]
             /\ ~ProbeOk(conn'[t])) =>
            /\ pc'[t] = "r_close"
            /\ pool' = pool /\ active_connections' = active_connections /\ status' = status
       /\ (pc[t] = "r_close" /\ held[t] /\ pc'[t] # "r_close") =>
            /\ pc'[t] = "r_lock"
            /\ status'[conn[t]] = "closed"
            /\ pool' = pool
            /\ active_connections' = active_connections
       /\ (pc[t] = "r_lock" /\ held[t] /\ pc'[t] # "r_lock") =>
            /\ pc'[t] = "idle"
            /\ active_connections' = active_connections - 1
            /\ decs'[conn[t]] = decs[conn[t]] + 1
            /\ status'[conn[t]] = "closed"
            /\ pool' = pool]_vars

\* C13 witness: a release has just discarded a connection the endpoint had dropped:
\* it is closed, counted out once and not in the idle queue.
C13_Witness ==
  /\ event = "discarded"
  /\ \E s \in Sessions :
       /\ status[s] = "closed"
       /\ decs[s] = 1
       /\ \A i \in DOMAIN pool : pool[i] # s
  /\ active_connections = 0

\* C14: once a release has discarded a dead connection, a slot is free and the
\* dead connection is gone for good: get_connection never hands out a closed
\* connection, and a call that opens one opens a brand-new connection and
\* counts it exactly once (active_connections one above what the call found).
C14_DeadReplacedOnce ==
  [][/\ event' = "discarded" => active_connections' < max_connections
     /\ (event' \in {"reused", "waited"} /\ pool # <<>> /\ pool' = Tail(pool)) =>
          status[Head(pool)] # "closed"
     /\ event' = "opened" =>
          \E s \in Sessions :
            /\ status[s] = "unopened"
            /\ status'[s] = "live"
            /\ checked_out'[s] = 1
            /\ decs[s] = 0
            /\ active_connections' = savedActive + 1
            /\ active_connections' <= max_connections]_vars

\* C15: close_all takes the connections out of the idle queue one by one and closes
\* each, returning only when the queue is empty; a connection it closes is not
\* checked out by any caller when it is taken or when it is closed, and no
\* other connection is touched.
C15_CloseAllOnlyIdle ==
  [][\A t \in Threads :
       /\ (pc[t] = "c_loop" /\ pc'[t] = "c_close") =>
            /\ pool # <<>>
            /\ pool' = Tail(pool)
            /\ conn'[t] = Head(pool)
            /\ checked_out[Head(pool)] = 0
            /\ status' = status
       /\ (pc[t] = "c_close" /\ pc'[t] # "c_close") =>
            /\ status'[conn[t]] = "closed"
            /\ checked_out[conn[t]] = 0
            /\ \A s \in Sessions : s # conn[t] => status'[s] = status[s]
            /\ checked_out' = checked_out
       /\ (pc[t] = "c_loop" /\ pc'[t] = "idle") => pool = <<>>]_vars

\* C16: when close_all returns while no other thread is inside a pool operation,
\* active_connections equals the number of connections checked out by callers.
C16_CloseAllResetsCount ==
  [][\A t \in Threads :
       (/\ pc[t] = "c_loop" /\ pc'[t] = "idle"
        /\ \A u \in Threads : u # t => pc[u] = "idle") =>
          active_connections' = Cardinality({s \in Sessions : checked_out[s] > 0})]_vars

\* C17: a close_all called right after a close_all has returned finds the idle
\* queue empty and returns at once: it closes nothing and changes neither
\* active_connections nor the queue nor the lock.
C17_CloseAllIdempotent ==
  [][\A t \in Threads :
       (pc[t] = "c_loop" /\ event = "drained" /\ pc'[t] # "c_loop") =>
          /\ pc'[t] = "idle"
          /\ pool = <<>>
          /\ pool' = pool
          /\ active_connections' = active_connections
          /\ status' = status
          /\ checked_out' = checked_out
          /\ lock' = lock]_vars

\* C17 witness: the second of two close_all calls in a row has just returned; the
\* first had closed an idle connection, and a caller still holds a counted one.
C17_Witness ==
  /\ event = "again"
  /\ \E s \in Sessions : status[s] = "closed" /\ decs[s] = 1
  /\ \E s \in Sessions : checked_out[s] = 1
  /\ active_connections = 1
  /\ pool = <<>>

\* C18: after a close_all that returned with no connection checked out and no other
\* call in progress, the pool is below its limit, so that a following
\* get_connection opens a new connection instead of waiting.
C18_UsableAfterCloseAll ==
  (/\ event \in {"drained", "again"}
   /\ \A t \in Threads : pc[t] = "idle"
   /\ \A s \in Sessions : checked_out[s] = 0)
     => active_connections < max_connections

\* C19: however release_connection and close_all interleave, a connection is never
\* both closed and in the idle queue, and once every call has returned each
\* connection that is not checked out is either idle in the queue, not closed
\* and still counted, or closed, out of the queue and counted out exactly once.
C19_ReleaseCloseAllRace ==
  /\ \A i \in DOMAIN pool : status[pool[i]] # "closed"
  /\ (\A t \in Threads : pc[t] = "idle") =>
       \A s \in Sessions :
         (status[s] # "unopened" /\ checked_out[s] = 0) =>
            \/ /\ \E i \in DOMAIN pool : pool[i] = s
               /\ status[s] # "closed"
               /\ decs[s] = 0
            \/ /\ \A i \in DOMAIN pool : pool[i] # s
               /\ status[s] = "closed"
               /\ decs[s] = 1

\* C20: with max_connections = 2 and two connections checked out, a third caller
\* of get_connection opens nothing and waits with active_connections = 2; a
\* holder's release of a live connection puts it in the queue without changing
\* the counter, and the waiting call then returns that connection, still with
\* active_connections = 2.
C20_ThirdCallerServed ==
  [][\A t \in Threads : max_connections = 2 =>
       /\ (/\ Cardinality({s \in Sessions : checked_out[s] = 1}) = 2
           /\ pc[t] = "g_lock" /\ pc'[t] # "g_lock") =>
             /\ pc'[t] = "g_wait"
             /\ active_connections' = 2
             /\ status' = status
       /\ (/\ Cardinality({s \in Sessions : checked_out[s] = 1}) = 2
           /\ pc[t] = "g_wait") =>
             /\ active_connections = 2
             /\ pool = <<>>
             /\ \A u \in Threads :
                  (pc[u] = "idle" /\ pc'[u] \in {"r_put", "r_close"} /\ ProbeOk(conn'[u])) =>
                     pc'[u] = "r_put" /\ pc'[t] = "g_wait" /\ active_connections' = 2
       /\ (pc[t] = "g_wait" /\ active_connections = 2) =>
             \A u \in Threads :
               (pc[u] = "r_put" /\ pc'[u] # "r_put") =>
                  /\ pool' = Append(pool, conn[u])
                  /\ active_connections' = 2
                  /\ pc'[t] = "g_wait"
       /\ (pc[t] = "g_wait" /\ pool # <<>> /\ pc'[t] # "g_wait") =>
             /\ event' = "waited"
             /\ checked_out' = [checked_out EXCEPT ![Head(pool)] = @ + 1]
             /\ pool' = Tail(pool)
             /\ active_connections' = 2]_vars

\* C20 witness: in a pool of two, the third caller has just been handed the
\* connection a holder released while it waited; two connections are out again.
C20_Witness ==
  /\ max_connections = 2
  /\ event = "waited"
  /\ active_connections = 2
  /\ \A s \in Sessions : checked_out[s] = 1 /\ status[s] = "live"
  /\ pool = <<>>
  /\ \A t \in Threads : pc[t] = "idle"

\* C21: an execute_query that got a connection hands exactly that connection to
\* release_connection exactly once before it returns or raises, whether the
\* query succeeded or failed; a failed query's exception reaches the caller
\* after the release has returned; when get_connection raised, nothing is released.
C21_ReleasedExactlyOnce ==
  [][\A t \in Threads :
       /\ (q_pc[t] \in {"finally_ok", "finally_err"} /\ q_pc'[t] # q_pc[t]) =>
            /\ connection[t] # 0
            /\ checked_out'[connection[t]] = checked_out[connection[t]] - 1
            /\ conn'[t] = connection[t]
            /\ pc'[t] \in {"r_put", "r_close"}
            /\ releases[t] = 0 /\ releases'[t] = 1
            /\ q_pc'[t] = (IF q_pc[t] = "finally_ok" THEN "rel_ok" ELSE "rel_err")
       /\ q_pc[t] \in {"rel_ok", "rel_err"} => conn[t] = connection[t] /\ releases[t] = 1
       /\ (q_pc[t] \in {"get", "cursor", "finally_ok", "finally_err", "rel_ok", "rel_err"}
             /\ q_pc'[t] = "out") =>
            /\ q_pc[t] \in {"get", "rel_ok", "rel_err"}
            /\ pc'[t] = "idle"
            /\ q_pc[t] = "get" => connection[t] = 0 /\ releases[t] = 0 /\ q_result'[t] = "raised"
            /\ q_pc[t] = "rel_ok" => releases[t] = 1 /\ q_result'[t] = "rows"
            /\ q_pc[t] = "rel_err" => releases[t] = 1 /\ q_result'[t] = "raised"
       /\ releases'[t] <= 1]_vars

\* C21 witness: the only client call made so far, an execute_query whose query
\* failed, has just raised: release_connection had queued its connection, the
\* only one ever opened, and returned.
C21_Witness ==
  \E t \in Threads :
    /\ q_pc[t] = "out" /\ q_result[t] = "raised"
    /\ \A u \in Threads : u # t => q_pc[u] = "out" /\ q_result[u] = "none"
    /\ event = "queued"
    /\ opened = 1
    /\ pool = <<1>>
    /\ active_connections = 1

\* C22: the release after a failed query goes by the probe alone: with a successful
\* probe it goes on to the put, which appends the connection to the idle queue
\* with active_connections unchanged, and the next execute_query takes a queued
\* connection without opening one; the release closes the connection only when
\* its probe failed.
C22_QueryFailureKeepsSession ==
  [][\A t \in Threads :
       /\ (q_pc[t] = "finally_err" /\ q_pc'[t] # q_pc[t]) =>
            /\ pc'[t] = (IF ProbeOk(connection[t]) THEN "r_put" ELSE "r_close")
            /\ status' = status
            /\ pool' = pool
            /\ active_connections' = active_connections
       /\ (q_pc[t] = "rel_err" /\ pc[t] = "r_put" /\ pc'[t] # "r_put") =>
            /\ pool' = Append(pool, connection[t])
            /\ active_connections' = active_connections
            /\ status' = status
            /\ q_pc'[t] = "out"
       /\ (q_pc[t] = "rel_err" /\ pc[t] = "r_close" /\ pc'[t] # "r_close") =>
            /\ status'[connection[t]] = "closed"
            /\ pool' = pool
       /\ (q_pc[t] = "out" /\ q_pc'[t] \in {"get", "cursor"} /\ pool # <<>>) =>
            /\ connection'[t] = Head(pool)
            /\ q_pc'[t] = "cursor"
            /\ status' = status
            /\ active_connections' = active_connections]_vars

\* C22 witness: the only connection ever opened has been through a failed query and
\* its release, and a following execute_query has just taken it from the queue.
C22_Witness ==
  /\ event = "reused"
  /\ opened = 1
  /\ active_connections = 1
  /\ \E t \in Threads : q_pc[t] = "out" /\ q_result[t] = "raised"
  /\ \E u \in Threads : q_pc[u] = "cursor" /\ status[connection[u]] = "live"

\* C23: closed is final: a connection the pool has closed is never in the idle
\* queue afterwards and get_connection never returns it.
C23_ClosedIsTerminal ==
  [][/\ \A i \in DOMAIN pool' : status'[pool'[i]] # "closed"
     /\ \A s \in Sessions :
          (status[s] = "closed" /\ checked_out'[s] > checked_out[s]) => FALSE]_vars

\* C24: a connection the pool has closed is no longer counted: in every state each
\* closed connection has had active_connections decremented for it exactly once.
C24_ClosedFreesSlot == \A s \in Sessions : status[s] = "closed" => decs[s] = 1

\* the connections actually open: created and not closed, be they idle in the queue,
\* checked out, or on their way through release_connection or close_all
OpenSessions == {s \in Sessions : status[s] \in {"live", "stale"}}

\* C26: with callers that release each connection at most once, the connections
\* actually open (idle or checked out) never number more than max_connections.
C26_OpenWithinMax == Cardinality(OpenSessions) <= max_connections

\* C26 witness: as many connections as the pool allows are open, one of them idle,
\* and a caller is being refused one more.
C26_Witness ==
  /\ Cardinality(OpenSessions) = max_connections
  /\ pool # <<>>
  /\ \E t \in Threads : pc[t] = "g_wait"

\* C27: when no pool operation is in progress, active_connections is the number of
\* idle connections plus the number of checked-out ones; it is never negative
\* and the idle queue never holds more than max_connections.
C27_Accounting ==
  /\ active_connections >= 0
  /\ Len(pool) <= max_connections
  /\ (\A t \in Threads : pc[t] = "idle") =>
       active_connections = Len(pool) + Cardinality({s \in Sessions : checked_out[s] > 0})

\* C28: a caller waiting at capacity does not time out while a connection
\* released with a failing probe is waiting to be counted out: the freed
\* slot reaches the waiter before its timeout.
C28_FreedSlotReachesWaiter ==
  [][\A t \in Threads :
       (pc[t] = "g_wait" /\ pc'[t] = "idle" /\ event' = "timeout") =>
          \A u \in Threads : pc[u] # "r_lock"]_vars

\* C29: at the moment get_connection passes the capacity test and goes on to
\* connect, the idle queue is empty.
C29_OpenOnlyWhenNoIdle ==
  [][\A t \in Threads : (pc[t] = "g_lock" /\ pc'[t] = "g_connect") => pool = <<>>]_vars

\* the queries the method in progress has issued, in order
Issued == [i \in DOMAIN calls |-> calls[i].q]

\* C25: update_record issues its queries in the order check, update, verify, all for
\* the record's country_code: the UPDATE only after the check returned a count
\* above zero, True only after all three; a check that returns nothing or
\* count 0 ends the call with False and no further query.
C25_UpdateAfterCheck ==
  method = "update_record" =>
    /\ \E n \in 0..3 : Issued = SubSeq(<<"check", "update", "verify">>, 1, n)
    /\ \A i \in DOMAIN calls : calls[i].country_code = record.country_code
    /\ Len(calls) >= 2 =>
         /\ ~calls[1].res.raised
         /\ calls[1].res.rows # <<>>
         /\ calls[1].res.rows[1] > 0
    /\ ret = "True" => Len(calls) = 3 /\ calls[3].res.rows # <<>>
    /\ (Len(calls) >= 1 /\ ~calls[1].res.raised
          /\ (calls[1].res.rows = <<>> \/ calls[1].res.rows[1] = 0)) =>
         Len(calls) = 1 /\ ret = "False" /\ op_pc = "idle"

\* C25 witness: an update_record has returned True after its three queries.
C25_Witness ==
  /\ method = "update_record"
  /\ ret = "True"
  /\ Issued = <<"check", "update", "verify">>
  /\ calls[1].res.rows[1] > 0

\* C30: create_record, add_record, update_record and delete_record never let an
\* exception of execute_query out: the call returns False.
C30_FailureAsValue ==
  (/\ method \in {"create_record", "add_record", "update_record", "delete_record"}
   /\ op_pc = "idle"
   /\ calls # <<>>
   /\ calls[Len(calls)].res.raised) => ret = "False"

====
